---- MODULE Spec2Model ----
(***************************************************************************)
(* State-machine model of the Paradox MG/SP serial client:                 *)
(*   paradox/protocol.py   frame builders, struct layouts, checksum        *)
(*   paradox/connection.py SerialConnection (read_variable_length, ...)    *)
(*   paradox/panel.py      ParadoxPanel (handshake, authentication,        *)
(*                         commands, wait_for_response)                    *)
(* Bytes are naturals 0..255, a frame is a sequence of bytes; offset k of  *)
(* the source is index k+1 here.                                           *)
(***************************************************************************)
EXTENDS Integers, Sequences, FiniteSets, TLC

VARIABLES
    panel_info,     \* ParadoxPanel.panel_info ({} is present = FALSE)
    authenticated,  \* ParadoxPanel._authenticated
    config,         \* ParadoxPanel.config['pc_password'], a sequence of characters
    connected,      \* SerialConnection.is_connected()
    rxbuf,          \* bytes waiting in the serial input buffer
    pc,             \* "idle", "wait" inside wait_for_response, "monitor" inside monitor_events
    call,           \* the running or most recent call and its wait-loop position
    entry,          \* panel_info and _authenticated when that call started
    io,             \* transport operations of that call, in order of first use
    tx,             \* frames that call wrote to the transport, in order
    ret,            \* what that call returned or raised ("pending" while it runs)
    failed,         \* history: some authenticate call was answered 0x70
    handshake,      \* history: the response panel_info was populated from
    monitor         \* monitor_events: frames its loop read, events it yielded

vars == <<panel_info, authenticated, config, connected, rxbuf, pc, call, entry,
          io, tx, ret, failed, handshake, monitor>>

----------------------------------------------------------------------------
(* Bounds of the model *)

\* polls of wait_for_response before its deadline (timeout / sleep interval)
TimeoutTicks == 2
\* bytes the device may have pending in the input buffer
MaxBuf == 37
\* longest password string enumerated for encode_password
MaxPwLen == 5
\* longest byte stream handed to read_variable_length on its own
MaxStream == 40
\* frames of one monitor_events call that the model records
MaxReads == 2
\* bytes that may be pending while monitor_events runs: two cut frames
MaxPending == 41

----------------------------------------------------------------------------
(* protocol.py: checksum and builders *)

FrameLen == 37

RECURSIVE SumBytes(_)
SumBytes(s) == IF s = <<>> THEN 0 ELSE Head(s) + SumBytes(Tail(s))

calculate_checksum_tail(data) == SumBytes(Tail(data)) % 256

calculate_checksum(data) == SumBytes(data) % 256

Zeros(n) == [i \in 1..n |-> 0]

\* data[off] = v on a bytearray
SetAt(data, off, v) == [data EXCEPT ![off + 1] = v]

\* data[36] = calculate_checksum(data[0:36])
Seal(data) == SetAt(data, 36, calculate_checksum(SubSeq(data, 1, 36)))

build_initiate_communication(user_id) ==
    Seal(SetAt(SetAt(Zeros(FrameLen), 0, 114), 35, user_id))

\* the low and high byte of panel_id as the builder splits it
HiByte(n) == (n \div 256) % 256
LoByte(n) == n % 256

build_initialize_communication_mgsp(product_id, firmware_version, panel_id, pc_password_bytes, source_id, user_id) ==
    LET d1 == SetAt(Zeros(FrameLen), 0, 0)
        d2 == SetAt(d1, 1, product_id)
        d3 == SetAt(SetAt(SetAt(d2, 2, firmware_version[1]), 3, firmware_version[2]),
                    4, firmware_version[3])
        d4 == SetAt(SetAt(d3, 5, HiByte(panel_id)), 6, LoByte(panel_id))
        d5 == SetAt(SetAt(d4, 7, pc_password_bytes[1]), 8, pc_password_bytes[2])
        d6 == SetAt(SetAt(d5, 12, source_id), 13, user_id)
        d7 == SetAt(d6, 35, user_id)
    IN  Seal(d7)

build_perform_action_swapped(action, argument, source_id, user_id) ==
    LET d1 == SetAt(Zeros(FrameLen), 0, 64)
        d2 == SetAt(SetAt(d1, 4, argument), 5, action)
        d3 == SetAt(SetAt(SetAt(d2, 33, source_id), 34, user_id), 35, user_id)
    IN  Seal(d3)

build_perform_action(action, argument, source_id, user_id) ==
    LET d1 == SetAt(Zeros(FrameLen), 0, 64)
        d2 == SetAt(SetAt(d1, 4, action), 5, argument)
        d3 == SetAt(SetAt(SetAt(d2, 33, source_id), 34, user_id), 35, user_id)
    IN  Seal(d3)

build_read_eeprom(address, records, source_id, user_id) ==
    LET d1 == SetAt(Zeros(FrameLen), 0, 80)
        d2 == SetAt(SetAt(d1, 2, HiByte(address)), 3, LoByte(address))
        d3 == SetAt(d2, 4, records)
        d4 == SetAt(SetAt(SetAt(d3, 33, source_id), 34, user_id), 35, user_id)
    IN  Seal(d4)

\* bytearray item assignment raises ValueError outside range(0, 256)
IsByte(v) == v \in 0..255

PARTITION_ACTIONS ==
    [arm_stay |-> 1, arm_sleep |-> 2, arm |-> 4, disarm |-> 5,
     arm_stay_instant |-> 6, arm_instant |-> 7]

ZONE_ACTIONS == [bypass |-> 16, clear_bypass |-> 16]

----------------------------------------------------------------------------
(* protocol.py: struct layouts used by the session *)

\* values that ProductIdEnum maps to a name
ProductIdValues == {0, 1, 2, 3, 4, 5, 21, 22, 23, 24}

\* Enum decoding of one byte: a mapped value decodes to its name (a string
\* that remembers the integer), any other value to the integer itself
ProductIdEnum(b) == [named |-> b \in ProductIdValues, intvalue |-> b]

NoFields ==
    [product_id |-> [named |-> FALSE, intvalue |-> 0],
     firmware_version |-> <<0, 0, 0>>, panel_id |-> 0,
     pc_password |-> <<0, 0>>, source_id |-> 0]

\* InitiateCommunicationResponse.parse(data): 37 bytes are consumed, the two
\* Const fields are compared, the checksum byte is read as a plain Int8ub
InitiateCommunicationResponse(data) ==
    IF Len(data) >= FrameLen /\ data[1] = 114 /\ data[2] = 255
    THEN [ok |-> TRUE,
          fields |-> [product_id |-> ProductIdEnum(data[7]),
                      firmware_version |-> <<data[8], data[9], data[10]>>,
                      panel_id |-> data[11] * 256 + data[12],
                      pc_password |-> <<data[13], data[14]>>,
                      source_id |-> data[30]],
          checksum |-> data[37]]
    ELSE [ok |-> FALSE, fields |-> NoFields, checksum |-> 0]

\* the layout with its data field one byte early
ReadEEPROMResponse_shifted(data) ==
    IF Len(data) >= 33
    THEN [ok |-> TRUE, address |-> data[3] * 256 + data[4], records |-> data[5],
          data |-> SubSeq(data, 5, 31), checksum |-> data[33]]
    ELSE [ok |-> FALSE, address |-> 0, records |-> 0, data |-> <<>>, checksum |-> 0]

\* ReadEEPROMResponse.parse(data): 5 header bytes, 27 data bytes, checksum
ReadEEPROMResponse(data) ==
    IF Len(data) >= 33
    THEN [ok |-> TRUE, address |-> data[3] * 256 + data[4], records |-> data[5],
          data |-> SubSeq(data, 6, 32), checksum |-> data[33]]
    ELSE [ok |-> FALSE, address |-> 0, records |-> 0, data |-> <<>>, checksum |-> 0]

----------------------------------------------------------------------------
(* protocol.py: the other struct layouts, get_parser_by_command and
   parse_message *)

\* values that CommunicationSourceIDEnum maps to a name
CommunicationSourceIDValues == {0, 1, 2, 4, 5, 6}

CommunicationSourceIDEnum(b) ==
    [named |-> b \in CommunicationSourceIDValues, intvalue |-> b]

\* Int16ub at a byte offset
Int16ub(data, off) == data[off + 1] * 256 + data[off + 2]

\* parser.parse(data) raised: a Const differs or the data ends early
ParseFailed == [ok |-> FALSE, layout |-> "", fields |-> [command |-> -1], checksum |-> -1]

Parsed(layout, fields, checksum) ==
    [ok |-> TRUE, layout |-> layout, fields |-> fields, checksum |-> checksum]

\* 34 bytes: the checksum field is the byte at offset 33
InitializeCommunication_MGSP(data) ==
    IF Len(data) >= 34 /\ data[1] = 0 /\ data[14] = 0
    THEN Parsed("InitializeCommunication_MGSP",
                [command |-> data[1],
                 product_id |-> ProductIdEnum(data[2]),
                 firmware_version |-> <<data[3], data[4], data[5]>>,
                 panel_id |-> Int16ub(data, 5),
                 pc_password |-> <<data[8], data[9]>>,
                 source_id |-> CommunicationSourceIDEnum(data[13]),
                 user_id |-> data[14]],
                data[34])
    ELSE ParseFailed

\* 36 bytes: command, 33 reserved bytes, user_id at offset 34, checksum at 35
InitializeCommunicationResponse_MGSP(data) ==
    IF Len(data) >= 36
    THEN Parsed("InitializeCommunicationResponse_MGSP",
                [command |-> data[1], user_id |-> data[35]], data[36])
    ELSE ParseFailed

\* 36 bytes
PerformAction(data) ==
    IF Len(data) >= 36 /\ data[1] = 64
    THEN Parsed("PerformAction",
                [command |-> data[1], action |-> data[5], argument |-> data[6],
                 source_id |-> CommunicationSourceIDEnum(data[34]),
                 user_id |-> data[35]],
                data[36])
    ELSE ParseFailed

\* 36 bytes
PerformActionResponse(data) ==
    IF Len(data) >= 36
    THEN Parsed("PerformActionResponse",
                [command |-> data[1], user_id |-> data[35]], data[36])
    ELSE ParseFailed

\* 36 bytes
ReadEEPROM(data) ==
    IF Len(data) >= 36 /\ data[1] = 80
    THEN Parsed("ReadEEPROM",
                [command |-> data[1], address |-> Int16ub(data, 2),
                 records |-> data[5],
                 source_id |-> CommunicationSourceIDEnum(data[34]),
                 user_id |-> data[35]],
                data[36])
    ELSE ParseFailed

\* 35 bytes: the label is the 16 bytes at offsets 11..26
LiveEvent(data) ==
    IF Len(data) >= 35
    THEN Parsed("LiveEvent",
                [command |-> data[1], event_group |-> data[3], event_1 |-> data[4],
                 event_2 |-> data[5], partition |-> data[6],
                 module_serial |-> SubSeq(data, 7, 10), label_type |-> data[11],
                 label |-> SubSeq(data, 12, 27), user_id |-> data[34]],
                data[35])
    ELSE ParseFailed

\* the dict of get_parser_by_command; "None" where the key is missing
parsers(command_byte) ==
    CASE command_byte = 114 -> "InitiateCommunicationResponse"
      [] command_byte = 0 -> "InitializeCommunication_MGSP"
      [] command_byte = 16 -> "InitializeCommunicationResponse_MGSP"
      [] command_byte = 112 -> "InitializeCommunicationResponse_MGSP"
      [] command_byte = 64 -> "PerformAction"
      [] command_byte = 80 -> "ReadEEPROM"
      [] OTHER -> "None"

\* the dict consulted before the ranges
get_parser_by_command_dict_first(command_byte) ==
    IF parsers(command_byte) # "None" THEN parsers(command_byte)
    ELSE IF 64 <= command_byte /\ command_byte <= 79 THEN "PerformActionResponse"
    ELSE IF 80 <= command_byte /\ command_byte <= 95 THEN "ReadEEPROMResponse"
    ELSE IF 224 <= command_byte /\ command_byte <= 239 THEN "LiveEvent"
    ELSE "None"

\* the three ranges are tested before the dict is consulted
get_parser_by_command(command_byte) ==
    IF 64 <= command_byte /\ command_byte <= 79 THEN "PerformActionResponse"
    ELSE IF 80 <= command_byte /\ command_byte <= 95 THEN "ReadEEPROMResponse"
    ELSE IF 224 <= command_byte /\ command_byte <= 239 THEN "LiveEvent"
    ELSE parsers(command_byte)

\* parser.parse(data) of the layout chosen
StructParse(parser, data) ==
    CASE parser = "InitiateCommunicationResponse" ->
             LET r == InitiateCommunicationResponse(data)
             IN  IF r.ok
                 THEN Parsed(parser,
                             [command |-> data[1], product_id |-> r.fields.product_id,
                              firmware_version |-> r.fields.firmware_version,
                              panel_id |-> r.fields.panel_id,
                              pc_password |-> r.fields.pc_password,
                              source_id |-> r.fields.source_id, user_id |-> data[31]],
                             r.checksum)
                 ELSE ParseFailed
      [] parser = "InitializeCommunication_MGSP" -> InitializeCommunication_MGSP(data)
      [] parser = "InitializeCommunicationResponse_MGSP" ->
             InitializeCommunicationResponse_MGSP(data)
      [] parser = "PerformAction" -> PerformAction(data)
      [] parser = "PerformActionResponse" -> PerformActionResponse(data)
      [] parser = "ReadEEPROM" -> ReadEEPROM(data)
      [] parser = "ReadEEPROMResponse" ->
             LET r == ReadEEPROMResponse(data)
             IN  IF r.ok
                 THEN Parsed(parser,
                             [command |-> data[1], address |-> r.address,
                              records |-> r.records, data |-> r.data],
                             r.checksum)
                 ELSE ParseFailed
      [] parser = "LiveEvent" -> LiveEvent(data)

\* parse_message(data); ok is FALSE where it returns None
parse_message(data) ==
    IF Len(data) < 2 THEN ParseFailed
    ELSE IF get_parser_by_command(data[1]) = "None" THEN ParseFailed
    ELSE StructParse(get_parser_by_command(data[1]), data)

----------------------------------------------------------------------------

(* connection.py: the frame reader *)

Min(a, b) == IF a < b THEN a ELSE b

\* the length read_variable_length derives from the first byte
MessageLength_unclamped(first, max_length) ==
    IF first > 4 THEN first ELSE 37

MessageLength(first, max_length) ==
    IF first > 4 THEN Min(first, max_length) ELSE 37

\* serial.read(n) on the pending bytes: what is there, at most n
SerialRead(buf, n) ==
    [data |-> SubSeq(buf, 1, Min(n, Len(buf))),
     rest |-> SubSeq(buf, Min(n, Len(buf)) + 1, Len(buf))]

\* a reader that gives nothing back when the frame is not complete
read_variable_length_whole(buf) ==
    LET first == SerialRead(buf, 1)
    IN  IF Len(first.data) = 0
        THEN [data |-> <<>>, rest |-> buf]
        ELSE LET remaining == MessageLength(first.data[1], FrameLen) - 1
                 more == SerialRead(first.rest, remaining)
             IN  IF Len(more.data) < remaining
                 THEN [data |-> <<>>, rest |-> more.rest]
                 ELSE [data |-> first.data \o more.data, rest |-> more.rest]

read_variable_length(buf) ==
    LET first == SerialRead(buf, 1)
    IN  IF Len(first.data) = 0
        THEN [data |-> <<>>, rest |-> buf]
        ELSE LET remaining == MessageLength(first.data[1], FrameLen) - 1
                 more == SerialRead(first.rest, remaining)
             IN  [data |-> first.data \o more.data, rest |-> more.rest]

----------------------------------------------------------------------------
(* panel.py: encode_password *)

HexDigits == <<"0", "1", "2", "3", "4", "5", "6", "7", "8", "9",
               "a", "b", "c", "d", "e", "f">>
UpperDigits == <<"A", "B", "C", "D", "E", "F">>

IsHexDigit(c) ==
    \/ \E i \in 1..16 : HexDigits[i] = c
    \/ \E i \in 1..6 : UpperDigits[i] = c

HexValue(c) ==
    IF \E i \in 1..16 : HexDigits[i] = c
    THEN (CHOOSE i \in 1..16 : HexDigits[i] = c) - 1
    ELSE (CHOOSE i \in 1..6 : UpperDigits[i] = c) + 9

RECURSIVE LStrip(_)
LStrip(s) == IF s # <<>> /\ Head(s) = " " THEN LStrip(Tail(s)) ELSE s

RECURSIVE RStrip(_)
RStrip(s) ==
    IF s # <<>> /\ s[Len(s)] = " " THEN RStrip(SubSeq(s, 1, Len(s) - 1)) ELSE s

\* digits of an integer literal: hex digits, single underscores between them
RECURSIVE DigitsOk(_, _)
DigitsOk(s, afterDigit) ==
    IF s = <<>> THEN afterDigit
    ELSE IF IsHexDigit(Head(s)) THEN DigitsOk(Tail(s), TRUE)
    ELSE IF Head(s) = "_" THEN afterDigit /\ Tail(s) # <<>> /\ IsHexDigit(s[2])
                                          /\ DigitsOk(Tail(s), FALSE)
    ELSE FALSE

RECURSIVE DigitsValue(_, _)
DigitsValue(s, acc) ==
    IF s = <<>> THEN acc
    ELSE IF Head(s) = "_" THEN DigitsValue(Tail(s), acc)
    ELSE DigitsValue(Tail(s), 16 * acc + HexValue(Head(s)))

\* Python int(s, 16): surrounding whitespace, an optional sign, an optional
\* 0x prefix (which may be followed by one underscore), then the digits
PyInt16(s) ==
    LET t == RStrip(LStrip(s))
        signed == t # <<>> /\ Head(t) \in {"+", "-"}
        neg == t # <<>> /\ Head(t) = "-"
        u == IF signed THEN Tail(t) ELSE t
        prefixed == Len(u) >= 2 /\ u[1] = "0" /\ u[2] \in {"x", "X"}
        v == IF prefixed THEN SubSeq(u, 3, Len(u)) ELSE u
        w == IF prefixed /\ v # <<>> /\ Head(v) = "_" THEN Tail(v) ELSE v
        good == w # <<>> /\ DigitsOk(w, FALSE)
    IN  [ok |-> good,
         val |-> IF good THEN (IF neg THEN 0 - DigitsValue(w, 0) ELSE DigitsValue(w, 0))
                 ELSE 0]

encode_password_swapped(password) ==
    IF Len(password) # 4 THEN [ok |-> FALSE, bytes |-> <<>>]
    ELSE LET byte1 == PyInt16(SubSeq(password, 1, 2))
             byte2 == PyInt16(SubSeq(password, 3, 4))
         IN  IF byte1.ok /\ byte2.ok /\ IsByte(byte1.val) /\ IsByte(byte2.val)
             THEN [ok |-> TRUE, bytes |-> <<byte2.val, byte1.val>>]
             ELSE [ok |-> FALSE, bytes |-> <<>>]

\* ok = FALSE is the ValueError of lines 52 and 60; bytes([byte1, byte2])
\* raises the same ValueError for a value outside range(0, 256)
encode_password(password) ==
    IF Len(password) # 4 THEN [ok |-> FALSE, bytes |-> <<>>]
    ELSE LET byte1 == PyInt16(SubSeq(password, 1, 2))
             byte2 == PyInt16(SubSeq(password, 3, 4))
         IN  IF byte1.ok /\ byte2.ok /\ IsByte(byte1.val) /\ IsByte(byte2.val)
             THEN [ok |-> TRUE, bytes |-> <<byte1.val, byte2.val>>]
             ELSE [ok |-> FALSE, bytes |-> <<>>]

----------------------------------------------------------------------------
(* The device: frames it may put on the line *)

\* a well-formed handshake response (command 0x72, result 0xFF)
HandshakeFrame(product_id, firmware, panel_id) ==
    LET d1 == SetAt(SetAt(Zeros(FrameLen), 0, 114), 1, 255)
        d2 == SetAt(d1, 6, product_id)
        d3 == SetAt(SetAt(SetAt(d2, 7, firmware[1]), 8, firmware[2]), 9, firmware[3])
        d4 == SetAt(SetAt(d3, 10, HiByte(panel_id)), 11, LoByte(panel_id))
        d5 == SetAt(d4, 29, 1)
    IN  Seal(d5)

\* a frame that carries nothing but its command byte and checksum
PlainFrame(command) == Seal(SetAt(Zeros(FrameLen), 0, command))

\* the same frame with a checksum byte that does not match
Corrupt(frame) == SetAt(frame, 36, (frame[37] + 1) % 256)

\* a live event as the LiveEvent layout places its fields; label has 16 bytes
EventFrame(command, event_group, event_1, event_2, partition, label) ==
    LET d1 == SetAt(SetAt(Zeros(FrameLen), 0, command), 2, event_group)
        d2 == SetAt(SetAt(SetAt(d1, 3, event_1), 4, event_2), 5, partition)
        d3 == [i \in 1..FrameLen |-> IF i \in 12..27 THEN label[i - 11] ELSE d2[i]]
    IN  Seal(d3)

\* "Front Door" padded with NUL bytes to 16
LabelDoor == <<70, 114, 111, 110, 116, 32, 68, 111, 111, 114, 0, 0, 0, 0, 0, 0>>

\* zone 3 opened, reported for partition 1
DoorEvent == EventFrame(226, 1, 3, 0, 1, LabelDoor)

\* a memory-read response as the ReadEEPROMResponse layout places its fields;
\* data has 27 bytes and the 4 bytes after it are not part of the layout's data
EepromFrame(command, address, records, data) ==
    LET d1 == SetAt(SetAt(Zeros(FrameLen), 0, command), 4, records)
        d2 == SetAt(SetAt(d1, 2, HiByte(address)), 3, LoByte(address))
        d3 == [i \in 1..FrameLen |->
                  IF i \in 6..32 THEN data[i - 5]
                  ELSE IF i \in 33..36 THEN 170 ELSE d2[i]]
    IN  Seal(d3)

\* 27 bytes, all different
MemoryDump == [i \in 1..27 |-> 200 + i]

\* the panel's answer to a read of one record at address 0x0102
MemoryFrame == EepromFrame(82, 258, 1, MemoryDump)

KnownPanel == HandshakeFrame(4, <<4, 2, 1>>, 1234)
OtherPanel == HandshakeFrame(9, <<1, 0, 7>>, 513)

DeviceFrames ==
    { KnownPanel, OtherPanel,
      Corrupt(HandshakeFrame(9, <<2, 0, 0>>, 7)),
      SubSeq(OtherPanel, 1, 20),
      PlainFrame(114),
      PlainFrame(16), PlainFrame(112),
      PlainFrame(64), PlainFrame(65),
      PlainFrame(80),
      PlainFrame(225) }

\* configured PC passwords of the session
PcPasswords ==
    { <<"a", "b", "c", "d">>, <<"1", "2">>, <<"z", "z", "z", "z">>,
      <<"+", "1", "+", "2">> }

----------------------------------------------------------------------------
(* panel.py: the session *)

NoInfo == [present |-> FALSE, fields |-> NoFields]

NoArg == [n |-> 0, m |-> "", k |-> 0]

\* no monitor_events call has run
NoMonitor == [frames |-> <<>>, yielded |-> <<>>]

Pending == [val |-> "pending", data |-> <<>>, resp |-> <<>>, line |-> 0]

Returned(val, data, resp, line) ==
    [val |-> val, data |-> data, resp |-> resp, line |-> line]

Snapshot == [info |-> panel_info, auth |-> authenticated]

SessionState ==
    IF authenticated THEN "Authenticated"
    ELSE IF panel_info.present THEN "Identified"
    ELSE "Disconnected"

\* record a transport operation of the running call
Touch(trace, kind) ==
    IF \E i \in 1..Len(trace) : trace[i] = kind THEN trace ELSE Append(trace, kind)

Init ==
    /\ panel_info = NoInfo
    /\ authenticated = FALSE
    /\ config \in PcPasswords
    /\ connected = TRUE
    /\ rxbuf = <<>>
    /\ pc = "idle"
    /\ call = [op |-> "none", arg |-> NoArg, expected |-> {}, elapsed |-> 0, stale |-> 0]
    /\ entry = [info |-> NoInfo, auth |-> FALSE]
    /\ io = <<>>
    /\ tx = <<>>
    /\ ret = Pending
    /\ failed = FALSE
    /\ handshake = <<>>
    /\ monitor = NoMonitor

\* a call that returns or raises before it reaches wait_for_response
Leave(op, arg, trace, val, line) ==
    /\ pc' = "idle"
    /\ call' = [op |-> op, arg |-> arg, expected |-> {}, elapsed |-> 0, stale |-> 0]
    /\ entry' = Snapshot
    /\ io' = trace
    /\ tx' = <<>>
    /\ ret' = Returned(val, <<>>, <<>>, line)
    /\ UNCHANGED <<panel_info, authenticated, config, connected, failed,
                   handshake, monitor>>

\* an exchange that sends its frame a second time
Exchange_resend(op, arg, trace, cmd, expected, line) ==
    IF ~connected
    THEN Leave(op, arg, trace, "SerialException", line)
    ELSE /\ pc' = "wait"
         /\ call' = [op |-> op, arg |-> arg, expected |-> expected, elapsed |-> 0,
                     stale |-> IF op = "initiate_communication" THEN 0 ELSE Len(rxbuf)]
         /\ entry' = Snapshot
         /\ io' = Touch(trace, "write")
         /\ tx' = <<cmd, cmd>>
         /\ ret' = Pending
         /\ UNCHANGED <<panel_info, authenticated, config, connected, failed,
                        handshake, monitor>>

\* connection.write(cmd) followed by wait_for_response(expected): write
\* raises SerialException on a closed port
Exchange(op, arg, trace, cmd, expected, line) ==
    IF ~connected
    THEN Leave(op, arg, trace, "SerialException", line)
    ELSE /\ pc' = "wait"
         /\ call' = [op |-> op, arg |-> arg, expected |-> expected, elapsed |-> 0,
                     stale |-> IF op = "initiate_communication" THEN 0 ELSE Len(rxbuf)]
         /\ entry' = Snapshot
         /\ io' = Touch(trace, "write")
         /\ tx' = <<cmd>>
         /\ ret' = Pending
         /\ UNCHANGED <<panel_info, authenticated, config, connected, failed,
                        handshake, monitor>>

\* a handshake that leaves the input buffer as it finds it
initiate_communication_noflush ==
    /\ pc = "idle"
    /\ rxbuf' = rxbuf
    /\ Exchange("initiate_communication", [pending |-> rxbuf],
                IF connected THEN <<"flush">> ELSE <<>>,
                build_initiate_communication(0), {114}, 78)

\* call.arg keeps the bytes that were pending when the call began
initiate_communication ==
    /\ pc = "idle"
    /\ rxbuf' = IF connected THEN <<>> ELSE rxbuf
    /\ Exchange("initiate_communication", [pending |-> rxbuf],
                IF connected THEN <<"flush">> ELSE <<>>,
                build_initiate_communication(0), {114}, 78)

initialize_communication_send ==
    LET enc == encode_password(config)
        info == panel_info.fields
    IN  IF ~enc.ok
        THEN Leave("initialize_communication", NoArg, <<>>, "ValueError", 131)
        ELSE IF info.product_id.named
        THEN Leave("initialize_communication", NoArg, <<>>, "TypeError", 134)
        ELSE Exchange("initialize_communication", NoArg, <<>>,
                      build_initialize_communication_mgsp(
                          info.product_id.intvalue, info.firmware_version,
                          info.panel_id, enc.bytes, 1, 0),
                      {16, 112}, 143)

initialize_communication_unguarded ==
    /\ pc = "idle"
    /\ UNCHANGED rxbuf
    /\ initialize_communication_send

initialize_communication ==
    /\ pc = "idle"
    /\ UNCHANGED rxbuf
    /\ IF ~panel_info.present
       THEN Leave("initialize_communication", NoArg, <<>>, "False", 125)
       ELSE initialize_communication_send

\* inputs of the command operations
Partitions == {0, 1, 8, 9}
Modes == {"arm", "arm_stay", "disarm", "away"}
Zones == {1, 192, 257}
Addresses == {0, 256}
RecordCounts == {1, 33}

ActionResponses == 64..79
EepromResponses == 80..95

\* PARTITION_ACTIONS.get(mode); -1 stands for None
ActionCode(mode) ==
    IF mode \in DOMAIN PARTITION_ACTIONS THEN PARTITION_ACTIONS[mode] ELSE -1

\* build_perform_action(...) then send_command(cmd, range(0x40, 0x50))
perform_action(op, arg, action, argument, line) ==
    IF ~IsByte(argument)
    THEN Leave(op, arg, <<>>, "ValueError", line - 8)
    ELSE Exchange(op, arg, <<>>, build_perform_action(action, argument, 1, 0),
                  ActionResponses, line)

arm_partition_send(partition, mode) ==
    LET arg == [n |-> partition, m |-> mode, k |-> 0]
    IN  IF ActionCode(mode) = -1
        THEN Leave("arm_partition", arg, <<>>, "False", 263)
        ELSE perform_action("arm_partition", arg, ActionCode(mode), partition - 1, 276)

arm_partition_ungated(partition, mode) ==
    /\ pc = "idle"
    /\ UNCHANGED rxbuf
    /\ arm_partition_send(partition, mode)

arm_partition(partition, mode) ==
    /\ pc = "idle"
    /\ UNCHANGED rxbuf
    /\ IF ~authenticated
       THEN Leave("arm_partition", [n |-> partition, m |-> mode, k |-> 0],
                  <<>>, "False", 257)
       ELSE arm_partition_send(partition, mode)

disarm_partition(partition) ==
    /\ pc = "idle"
    /\ UNCHANGED rxbuf
    /\ LET arg == [n |-> partition, m |-> "", k |-> 0]
       IN  IF ~authenticated
           THEN Leave("disarm_partition", arg, <<>>, "False", 302)
           ELSE perform_action("disarm_partition", arg, PARTITION_ACTIONS.disarm,
                               partition - 1, 315)

bypass_zone(zone) ==
    /\ pc = "idle"
    /\ UNCHANGED rxbuf
    /\ LET arg == [n |-> zone, m |-> "", k |-> 0]
       IN  IF ~authenticated
           THEN Leave("bypass_zone", arg, <<>>, "False", 341)
           ELSE perform_action("bypass_zone", arg, ZONE_ACTIONS.bypass, zone - 1, 354)

read_status(address, records) ==
    /\ pc = "idle"
    /\ UNCHANGED rxbuf
    /\ LET arg == [n |-> address, m |-> "", k |-> records]
       IN  IF ~authenticated
           THEN Leave("read_status", arg, <<>>, "None", 381)
           ELSE IF ~IsByte(records)
           THEN Leave("read_status", arg, <<>>, "ValueError", 386)
           ELSE Exchange("read_status", arg, <<>>,
                         build_read_eeprom(address, records, 1, 0),
                         EepromResponses, 394)

----------------------------------------------------------------------------
(* panel.py: wait_for_response and what each caller does with its result *)

\* lines 151-162: the caller's view of the authentication response
initialize_communication_result_lax(response) ==
    IF response[1] \in {16, 112} THEN [val |-> "True", line |-> 156, auth |-> TRUE]
    ELSE [val |-> "False", line |-> 162, auth |-> FALSE]

initialize_communication_result(response) ==
    IF response[1] = 16 THEN [val |-> "True", line |-> 156, auth |-> TRUE]
    ELSE IF response[1] = 112 THEN [val |-> "False", line |-> 159, auth |-> FALSE]
    ELSE [val |-> "False", line |-> 162, auth |-> FALSE]

\* the result code test of arm_partition, disarm_partition and bypass_zone
ActionLines == [arm_partition |-> 282, disarm_partition |-> 321, bypass_zone |-> 360]

\* the line each caller returns from when wait_for_response gives None
TimeoutLines ==
    [initiate_communication |-> 84, initialize_communication |-> 149,
     arm_partition |-> 288, disarm_partition |-> 327, bypass_zone |-> 366,
     read_status |-> 406]

\* a handshake that forgets the panel when the response does not decode
initiate_communication_done_clear(data) ==
    LET parsed == InitiateCommunicationResponse(data)
    IN  /\ panel_info' = IF parsed.ok
                         THEN [present |-> TRUE, fields |-> parsed.fields]
                         ELSE NoInfo
        /\ handshake' = IF parsed.ok THEN data ELSE handshake
        /\ ret' = IF parsed.ok THEN Returned("info", <<>>, data, 108)
                  ELSE Returned("None", <<>>, data, 112)
        /\ UNCHANGED <<authenticated, failed>>

\* initiate_communication, lines 86-112: parse the response, fill panel_info
initiate_communication_done(data) ==
    LET parsed == InitiateCommunicationResponse(data)
    IN  /\ panel_info' = IF parsed.ok
                         THEN [present |-> TRUE, fields |-> parsed.fields]
                         ELSE panel_info
        /\ handshake' = IF parsed.ok THEN data ELSE handshake
        /\ ret' = IF parsed.ok THEN Returned("info", <<>>, data, 108)
                  ELSE Returned("None", <<>>, data, 112)
        /\ UNCHANGED <<authenticated, failed>>

\* a caller that assigns the flag from every answer
initialize_communication_done_assign(data) ==
    LET r == initialize_communication_result(data)
    IN  /\ authenticated' = r.auth
        /\ failed' = (failed \/ data[1] = 112)
        /\ ret' = Returned(r.val, <<>>, data, r.line)
        /\ UNCHANGED <<panel_info, handshake>>

\* initialize_communication, lines 151-162
initialize_communication_done(data) ==
    LET r == initialize_communication_result(data)
    IN  /\ authenticated' = (authenticated \/ r.auth)
        /\ failed' = (failed \/ data[1] = 112)
        /\ ret' = Returned(r.val, <<>>, data, r.line)
        /\ UNCHANGED <<panel_info, handshake>>

\* arm_partition, disarm_partition, bypass_zone: if response: result_code == 0x40
perform_action_done_lax(data) ==
    /\ ret' = IF data[1] \in {64, 65}
              THEN Returned("True", <<>>, data, ActionLines[call.op])
              ELSE Returned("False", <<>>, data, ActionLines[call.op] + 3)
    /\ UNCHANGED <<panel_info, authenticated, failed, handshake>>

perform_action_done(data) ==
    /\ ret' = IF data[1] = 64
              THEN Returned("True", <<>>, data, ActionLines[call.op])
              ELSE Returned("False", <<>>, data, ActionLines[call.op] + 3)
    /\ UNCHANGED <<panel_info, authenticated, failed, handshake>>

\* read_status, lines 396-403
read_status_done(data) ==
    LET parsed == ReadEEPROMResponse(data)
    IN  /\ ret' = IF parsed.ok THEN Returned("data", parsed.data, data, 400)
                  ELSE Returned("None", <<>>, data, 403)
        /\ UNCHANGED <<panel_info, authenticated, failed, handshake>>

\* wait_for_response returned data: the rest of the calling operation
Complete(data) ==
    /\ pc' = "idle"
    /\ call' = [call EXCEPT !.elapsed = 0]
    /\ UNCHANGED <<config, connected, entry, tx, monitor>>
    /\ CASE call.op = "initiate_communication" -> initiate_communication_done(data)
         [] call.op = "initialize_communication" -> initialize_communication_done(data)
         [] call.op \in DOMAIN ActionLines -> perform_action_done(data)
         [] call.op = "read_status" -> read_status_done(data)

\* call.stale counts the bytes still pending that were already pending when
\* the call wrote its frame; a read takes the oldest bytes first
StaleLeft ==
    IF call.stale > Len(rxbuf) - Len(rxbuf') THEN call.stale - (Len(rxbuf) - Len(rxbuf'))
    ELSE 0

\* a deadline that also ends the session
Sleep_reset ==
    IF call.elapsed + 1 >= TimeoutTicks
    THEN /\ pc' = "idle"
         /\ call' = [call EXCEPT !.elapsed = 0, !.stale = StaleLeft]
         /\ ret' = Returned(IF call.op \in {"initiate_communication", "read_status"}
                            THEN "None" ELSE "False",
                            <<>>, <<>>, TimeoutLines[call.op])
         /\ panel_info' = NoInfo
         /\ authenticated' = FALSE
         /\ UNCHANGED <<config, connected, entry, tx, failed, handshake, monitor>>
    ELSE /\ call' = [call EXCEPT !.elapsed = @ + 1, !.stale = StaleLeft]
         /\ UNCHANGED <<panel_info, authenticated, config, connected, pc, entry, tx,
                        ret, failed, handshake, monitor>>

\* a loop whose clock does not advance
Sleep_stuck ==
    /\ UNCHANGED <<panel_info, authenticated, config, connected, pc, call, entry,
                   tx, ret, failed, handshake, monitor>>

\* time.sleep(0.01) and the loop test; past the deadline the caller returns
\* its failure value
Sleep ==
    IF call.elapsed + 1 >= TimeoutTicks
    THEN /\ pc' = "idle"
         /\ call' = [call EXCEPT !.elapsed = 0, !.stale = StaleLeft]
         /\ ret' = Returned(IF call.op \in {"initiate_communication", "read_status"}
                            THEN "None" ELSE "False",
                            <<>>, <<>>, TimeoutLines[call.op])
         /\ UNCHANGED <<panel_info, authenticated, config, connected, entry, tx, failed,
                        handshake, monitor>>
    ELSE /\ call' = [call EXCEPT !.elapsed = @ + 1, !.stale = StaleLeft]
         /\ UNCHANGED <<panel_info, authenticated, config, connected, pc, entry, tx,
                        ret, failed, handshake, monitor>>

\* SerialConnection.available()
available == IF connected THEN Len(rxbuf) ELSE 0

\* the loop of wait_for_response without the test "command in expected_command"
wait_for_response_any ==
    /\ pc = "wait"
    /\ IF available > 0
       THEN \E r \in {read_variable_length(rxbuf)} :
                /\ rxbuf' = r.rest
                /\ io' = Touch(Touch(io, "available"), "read")
                /\ IF Len(r.data) > 0
                   THEN Complete(r.data)
                   ELSE Sleep
       ELSE /\ io' = Touch(io, "available")
            /\ UNCHANGED rxbuf
            /\ Sleep

\* one iteration of the loop of wait_for_response
wait_for_response ==
    /\ pc = "wait"
    /\ IF available > 0
       THEN \E r \in {read_variable_length(rxbuf)} :
                /\ rxbuf' = r.rest
                /\ io' = Touch(Touch(io, "available"), "read")
                /\ IF Len(r.data) > 0 /\ r.data[1] \in call.expected
                   THEN Complete(r.data)
                   ELSE Sleep
       ELSE /\ io' = Touch(io, "available")
            /\ UNCHANGED rxbuf
            /\ Sleep

----------------------------------------------------------------------------
(* panel.py: handle_live_event and monitor_events *)

\* bytes.decode('ascii', errors='ignore'): bytes above 127 are dropped
AsciiIgnore(bytes) == SelectSeq(bytes, LAMBDA b : b < 128)

\* str.strip('\x00'): NUL characters are removed from both ends
RECURSIVE LStripNul(_)
LStripNul(s) == IF s # <<>> /\ Head(s) = 0 THEN LStripNul(Tail(s)) ELSE s

RECURSIVE RStripNul(_)
RStripNul(s) ==
    IF s # <<>> /\ s[Len(s)] = 0 THEN RStripNul(SubSeq(s, 1, Len(s) - 1)) ELSE s

StripNul(s) == RStripNul(LStripNul(s))

\* a handler that makes a record of whatever bytes it was given
handle_live_event_partial(event_data) ==
    LET parsed == LiveEvent(event_data \o Zeros(35))
    IN  [present |-> TRUE,
         event |-> [command |-> parsed.fields.command,
                    event_group |-> parsed.fields.event_group,
                    event_1 |-> parsed.fields.event_1,
                    event_2 |-> parsed.fields.event_2,
                    partition |-> parsed.fields.partition,
                    label_type |-> parsed.fields.label_type,
                    label |-> StripNul(AsciiIgnore(parsed.fields.label))]]

\* handle_live_event(event_data); present is FALSE where it returns None
handle_live_event(event_data) ==
    LET parsed == LiveEvent(event_data)
    IN  IF parsed.ok
        THEN [present |-> TRUE,
              event |-> [command |-> parsed.fields.command,
                         event_group |-> parsed.fields.event_group,
                         event_1 |-> parsed.fields.event_1,
                         event_2 |-> parsed.fields.event_2,
                         partition |-> parsed.fields.partition,
                         label_type |-> parsed.fields.label_type,
                         label |-> StripNul(AsciiIgnore(parsed.fields.label))]]
        ELSE [present |-> FALSE, event |-> <<>>]

\* duration=None
NoDuration == -1

\* "if duration": None and 0 are false
Truthy(duration) == duration # NoDuration /\ duration # 0

\* a generator that clears the input before it starts
monitor_events_flush(duration) ==
    /\ pc = "idle"
    /\ pc' = "monitor"
    /\ call' = [op |-> "monitor_events", arg |-> [n |-> duration, m |-> "", k |-> 0],
                expected |-> {}, elapsed |-> 0, stale |-> 0]
    /\ entry' = Snapshot
    /\ io' = <<"flush">>
    /\ tx' = <<>>
    /\ ret' = Pending
    /\ monitor' = NoMonitor
    /\ rxbuf' = <<>>
    /\ UNCHANGED <<panel_info, authenticated, config, connected, failed, handshake>>

\* monitor_events(duration) is called and its generator started
monitor_events(duration) ==
    /\ pc = "idle"
    /\ pc' = "monitor"
    /\ call' = [op |-> "monitor_events", arg |-> [n |-> duration, m |-> "", k |-> 0],
                expected |-> {}, elapsed |-> 0, stale |-> 0]
    /\ entry' = Snapshot
    /\ io' = <<>>
    /\ tx' = <<>>
    /\ ret' = Pending
    /\ monitor' = NoMonitor
    /\ UNCHANGED <<panel_info, authenticated, config, connected, rxbuf, failed,
                   handshake>>

\* lines 468-477 with the range test widened
monitor_events_take_lax(data) ==
    IF 64 <= data[1] /\ data[1] <= 239
    THEN LET event == handle_live_event(data)
         IN  IF event.present THEN Append(monitor.yielded, event.event)
             ELSE monitor.yielded
    ELSE monitor.yielded

\* lines 468-477: what has been yielded once the loop has dealt with data
monitor_events_take(data) ==
    IF 224 <= data[1] /\ data[1] <= 239
    THEN LET event == handle_live_event(data)
         IN  IF event.present THEN Append(monitor.yielded, event.event)
             ELSE monitor.yielded
    ELSE monitor.yielded

\* one iteration of the loop of monitor_events; elapsed is counted only where
\* the deadline test reads it, and monitor records the first MaxReads frames
\* the call reads and what they made it yield
monitor_events_poll ==
    /\ pc = "monitor"
    /\ IF Truthy(call.arg.n) /\ call.elapsed >= call.arg.n
       THEN /\ pc' = "idle"
            /\ call' = [call EXCEPT !.elapsed = 0]
            /\ ret' = Returned("StopIteration", <<>>, <<>>, 458)
            /\ UNCHANGED <<rxbuf, io, monitor>>
       ELSE /\ call' = [call EXCEPT !.elapsed = IF Truthy(call.arg.n) THEN @ + 1 ELSE @]
            /\ UNCHANGED <<pc, ret>>
            /\ IF available > 0
               THEN \E r \in {read_variable_length(rxbuf)} :
                        /\ rxbuf' = r.rest
                        /\ io' = Touch(Touch(io, "available"), "read")
                        /\ monitor' =
                               IF Len(r.data) > 0 /\ Len(monitor.frames) < MaxReads
                               THEN [frames |-> Append(monitor.frames, r.data),
                                     yielded |-> monitor_events_take(r.data)]
                               ELSE monitor
               ELSE /\ io' = Touch(io, "available")
                    /\ UNCHANGED <<rxbuf, monitor>>
    /\ UNCHANGED <<panel_info, authenticated, config, connected, entry, tx, failed,
                   handshake>>

\* the consumer stops iterating (KeyboardInterrupt, or the generator is closed)
monitor_events_close ==
    /\ pc = "monitor"
    /\ pc' = "idle"
    /\ call' = [call EXCEPT !.elapsed = 0]
    /\ ret' = Returned("closed", <<>>, <<>>, 479)
    /\ UNCHANGED <<panel_info, authenticated, config, connected, rxbuf, entry, io,
                   tx, failed, handshake, monitor>>

----------------------------------------------------------------------------

(* The environment *)

\* the device puts a frame on the line
DeviceSend(frame) ==
    /\ connected
    /\ Len(rxbuf) + Len(frame) <= MaxBuf
    /\ rxbuf' = rxbuf \o frame
    /\ UNCHANGED <<panel_info, authenticated, config, connected, pc, call, entry,
                   io, tx, ret, failed, handshake, monitor>>

\* SerialConnection.disconnect(): the caller closes the port between calls
disconnect ==
    /\ pc = "idle"
    /\ connected
    /\ connected' = FALSE
    /\ rxbuf' = <<>>
    /\ UNCHANGED <<panel_info, authenticated, config, pc, call, entry, io, tx,
                   ret, failed, handshake, monitor>>

Next ==
    \/ initiate_communication
    \/ initialize_communication
    \/ \E partition \in Partitions, mode \in Modes : arm_partition(partition, mode)
    \/ \E partition \in Partitions : disarm_partition(partition)
    \/ \E zone \in Zones : bypass_zone(zone)
    \/ \E address \in Addresses, records \in RecordCounts : read_status(address, records)
    \/ wait_for_response
    \/ \E frame \in DeviceFrames : DeviceSend(frame)
    \/ disconnect

Spec == Init /\ [][Next]_vars

\* the thread that called an operation goes on running the loop of
\* wait_for_response: each iteration is a non-blocking available(), a read
\* bounded by the serial timeout and a sleep
SpecFair == Spec /\ WF_vars(wait_for_response)

----------------------------------------------------------------------------
(* The command operations of an authenticated session, over every partition
   and mode and the zones around the ends of their range *)

\* the bytes wait_for_response took of the authentication response
AuthResponse == read_variable_length(PlainFrame(16))

\* the session after initiate_communication was answered by OtherPanel and
\* initialize_communication by a 0x10 frame
InitCmd ==
    /\ panel_info = [present |-> TRUE,
                     fields |-> InitiateCommunicationResponse(OtherPanel).fields]
    /\ authenticated = TRUE
    /\ config = <<"a", "b", "c", "d">>
    /\ connected = TRUE
    /\ rxbuf = AuthResponse.rest
    /\ pc = "idle"
    /\ call = [op |-> "initialize_communication", arg |-> NoArg,
               expected |-> {16, 112}, elapsed |-> 0, stale |-> 0]
    /\ entry = [info |-> panel_info, auth |-> FALSE]
    /\ io = <<"write", "available", "read">>
    /\ tx = <<build_initialize_communication_mgsp(9, <<1, 0, 7>>, 513,
                                                  <<171, 205>>, 1, 0)>>
    /\ ret = Returned("True", <<>>, AuthResponse.data, 156)
    /\ failed = FALSE
    /\ handshake = OtherPanel
    /\ monitor = NoMonitor

CmdPartitions == 0..9
CmdModes ==
    {"arm", "arm_stay", "arm_sleep", "arm_instant", "arm_stay_instant", "disarm",
     "arm_away"}
CmdZones == {0, 1, 2, 96, 192, 193, 257}
CmdAddresses == {0, 65535, 65536}
CmdRecordCounts == {0, 1, 32, 33}

\* what the panel answers to a command: result frames, whole, with a wrong
\* checksum and cut short, a memory response and a live event
CmdFrames ==
    { PlainFrame(64), PlainFrame(65), PlainFrame(66), PlainFrame(67), PlainFrame(79),
      Corrupt(PlainFrame(64)), SubSeq(PlainFrame(64), 1, 20), <<65>>,
      PlainFrame(80), PlainFrame(225),
      MemoryFrame, SubSeq(MemoryFrame, 1, 20) }

\* the panel answers once the line is quiet
DeviceReply(frame) ==
    /\ rxbuf = <<>>
    /\ DeviceSend(frame)

NextCmd ==
    \/ \E partition \in CmdPartitions, mode \in CmdModes : arm_partition(partition, mode)
    \/ \E partition \in CmdPartitions : disarm_partition(partition)
    \/ \E zone \in CmdZones : bypass_zone(zone)
    \/ \E address \in CmdAddresses, records \in CmdRecordCounts :
           read_status(address, records)
    \/ wait_for_response
    \/ \E frame \in CmdFrames : DeviceReply(frame)

SpecCmd == InitCmd /\ [][NextCmd]_vars

----------------------------------------------------------------------------

(* monitor_events on a session that has sent nothing *)

\* the session is Disconnected, Identified by OtherPanel, or Authenticated
InitMon ==
    /\ panel_info \in
           {NoInfo, [present |-> TRUE,
                     fields |-> InitiateCommunicationResponse(OtherPanel).fields]}
    /\ authenticated \in {a \in BOOLEAN : a => panel_info.present}
    /\ config = <<"a", "b", "c", "d">>
    /\ connected = TRUE
    /\ rxbuf = <<>>
    /\ pc = "idle"
    /\ call = [op |-> "none", arg |-> NoArg, expected |-> {}, elapsed |-> 0, stale |-> 0]
    /\ entry = [info |-> NoInfo, auth |-> FALSE]
    /\ io = <<>>
    /\ tx = <<>>
    /\ ret = Pending
    /\ failed = FALSE
    /\ handshake = IF panel_info.present THEN OtherPanel ELSE <<>>
    /\ monitor = NoMonitor

MonDurations == {NoDuration, 0, 2}

\* "Garage" between NUL bytes, with one byte above 127
LabelGarage == <<0, 71, 97, 114, 97, 103, 101, 200, 0, 0, 0, 0, 0, 0, 0, 0>>

\* what the panel sends while it is monitored: two events, an event cut short,
\* a frame just above the event range, a command result and an authentication
\* answer
MonFrames ==
    { DoorEvent, EventFrame(239, 2, 12, 1, 2, LabelGarage), SubSeq(DoorEvent, 1, 20),
      PlainFrame(240), PlainFrame(64), PlainFrame(16) }

\* the panel sends a frame whether or not the last one has been read
DeviceStream(frame) ==
    /\ connected
    /\ Len(rxbuf) + Len(frame) <= MaxPending
    /\ rxbuf' = rxbuf \o frame
    /\ UNCHANGED <<panel_info, authenticated, config, connected, pc, call, entry,
                   io, tx, ret, failed, handshake, monitor>>

NextMon ==
    \/ \E duration \in MonDurations : monitor_events(duration)
    \/ monitor_events_poll
    \/ monitor_events_close
    \/ \E frame \in MonFrames : DeviceStream(frame)

SpecMon == InitMon /\ [][NextMon]_vars

\* the consumer goes on iterating the generator unless it closes it
SpecMonFair == SpecMon /\ WF_vars(monitor_events_poll)

----------------------------------------------------------------------------

(* encode_password on its own, over every password string of the bounds *)

PwChars == {"0", "1", "9", "a", "b", "c", "d", "F", "z", "+", "-", " ", "_", "x"}

Passwords ==
    [1..4 -> PwChars] \cup UNION { [1..n -> {"1", "a"}] : n \in 0..MaxPwLen }

InitEnc ==
    /\ panel_info = NoInfo
    /\ authenticated = FALSE
    /\ config \in Passwords
    /\ connected = TRUE
    /\ rxbuf = <<>>
    /\ pc = "idle"
    /\ call = [op |-> "none", arg |-> NoArg, expected |-> {}, elapsed |-> 0, stale |-> 0]
    /\ entry = [info |-> NoInfo, auth |-> FALSE]
    /\ io = <<>>
    /\ tx = <<>>
    /\ ret = Pending
    /\ failed = FALSE
    /\ handshake = <<>>
    /\ monitor = NoMonitor

\* panel.encode_password(config['pc_password'])
encode_password_call ==
    /\ pc = "idle"
    /\ call.op = "none"
    /\ call' = [call EXCEPT !.op = "encode_password"]
    /\ entry' = Snapshot
    /\ ret' = LET enc == encode_password(config)
              IN  IF enc.ok THEN Returned("bytes", enc.bytes, <<>>, 58)
                  ELSE Returned("ValueError", <<>>, <<>>,
                                IF Len(config) # 4 THEN 52 ELSE 60)
    /\ UNCHANGED <<panel_info, authenticated, config, connected, rxbuf, pc, io, tx,
                   failed, handshake, monitor>>

NextEnc == encode_password_call

SpecEnc == InitEnc /\ [][NextEnc]_vars

----------------------------------------------------------------------------
(* The frame builders and parse_message on their own *)

InitCodec ==
    /\ panel_info = NoInfo
    /\ authenticated = FALSE
    /\ config = <<"a", "b", "c", "d">>
    /\ connected = TRUE
    /\ rxbuf = <<>>
    /\ pc = "idle"
    /\ call = [op |-> "none", arg |-> NoArg, expected |-> {}, elapsed |-> 0, stale |-> 0]
    /\ entry = [info |-> NoInfo, auth |-> FALSE]
    /\ io = <<>>
    /\ tx = <<>>
    /\ ret = Pending
    /\ failed = FALSE
    /\ handshake = <<>>
    /\ monitor = NoMonitor

\* field values given to the builders
UserIds == {0, 7, 255}
SourceIds == {1, 3}
ProductIds == {4, 9}
FirmwareVersions == {<<1, 0, 7>>, <<255, 0, 16>>}
PanelIds == {0, 513, 65535}
PasswordBytes == {<<171, 205>>, <<0, 0>>}
ActionBytes == {1, 4, 5, 16, 255}
ArgumentBytes == {0, 7, 191, 255}
EepromAddresses == {0, 256, 65535}
EepromRecords == {1, 32, 255}

\* cmd = protocol.build_...(fields) followed by protocol.parse_message(cmd)
BuildAndParse(op, fields, cmd) ==
    /\ pc = "idle"
    /\ call.op = "none"
    /\ call' = [call EXCEPT !.op = op, !.arg = fields]
    /\ entry' = Snapshot
    /\ tx' = <<cmd>>
    /\ ret' = LET parsed == parse_message(cmd)
              IN  Returned(IF parsed.ok THEN "parsed" ELSE "None", parsed, cmd,
                           IF parsed.ok THEN 329 ELSE 332)
    /\ UNCHANGED <<panel_info, authenticated, config, connected, rxbuf, pc, io,
                   failed, handshake, monitor>>

build_initiate_communication_call(user_id) ==
    BuildAndParse("build_initiate_communication", [user_id |-> user_id],
                  build_initiate_communication(user_id))

build_initialize_communication_mgsp_call(product_id, firmware_version, panel_id, pc_password_bytes, source_id, user_id) ==
    BuildAndParse("build_initialize_communication_mgsp",
                  [product_id |-> product_id, firmware_version |-> firmware_version,
                   panel_id |-> panel_id, pc_password |-> pc_password_bytes,
                   source_id |-> source_id, user_id |-> user_id],
                  build_initialize_communication_mgsp(
                      product_id, firmware_version, panel_id, pc_password_bytes,
                      source_id, user_id))

build_perform_action_call(action, argument, source_id, user_id) ==
    BuildAndParse("build_perform_action",
                  [action |-> action, argument |-> argument, source_id |-> source_id,
                   user_id |-> user_id],
                  build_perform_action(action, argument, source_id, user_id))

build_read_eeprom_call(address, records, source_id, user_id) ==
    BuildAndParse("build_read_eeprom",
                  [address |-> address, records |-> records, source_id |-> source_id,
                   user_id |-> user_id],
                  build_read_eeprom(address, records, source_id, user_id))

\* frames with a correct checksum, as a panel sends them
ValidFrames ==
    {KnownPanel, OtherPanel, PlainFrame(16), PlainFrame(112), PlainFrame(64),
     PlainFrame(80), DoorEvent}

\* offsets at which a byte of the frame is changed on the line, and by how much
AlteredOffsets == 0..36
Alterations == {0, 1, 128}

\* protocol.parse_message(data) on a received frame; rxbuf keeps the frame as
\* the panel sent it, data has the byte at offset off changed by delta
parse_message_call(frame, off, delta) ==
    /\ pc = "idle"
    /\ call.op = "none"
    /\ call' = [call EXCEPT !.op = "parse_message", !.arg = [off |-> off, delta |-> delta]]
    /\ entry' = Snapshot
    /\ rxbuf' = frame
    /\ ret' = LET data == SetAt(frame, off, (frame[off + 1] + delta) % 256)
                  parsed == parse_message(data)
              IN  Returned(IF parsed.ok THEN "parsed" ELSE "None", parsed, data,
                           IF parsed.ok THEN 329 ELSE 332)
    /\ UNCHANGED <<panel_info, authenticated, config, connected, pc, io, tx,
                   failed, handshake, monitor>>

NextCodec ==
    \/ \E user_id \in UserIds : build_initiate_communication_call(user_id)
    \/ \E product_id \in ProductIds, firmware_version \in FirmwareVersions,
          panel_id \in PanelIds, pc_password_bytes \in PasswordBytes,
          source_id \in SourceIds, user_id \in UserIds :
           build_initialize_communication_mgsp_call(
               product_id, firmware_version, panel_id, pc_password_bytes,
               source_id, user_id)
    \/ \E action \in ActionBytes, argument \in ArgumentBytes, source_id \in SourceIds,
          user_id \in UserIds :
           build_perform_action_call(action, argument, source_id, user_id)
    \/ \E address \in EepromAddresses, records \in EepromRecords,
          source_id \in SourceIds, user_id \in UserIds :
           build_read_eeprom_call(address, records, source_id, user_id)
    \/ \E frame \in ValidFrames, off \in AlteredOffsets, delta \in Alterations :
           parse_message_call(frame, off, delta)

SpecCodec == InitCodec /\ [][NextCodec]_vars

----------------------------------------------------------------------------

(* read_variable_length on its own, over every first byte and every number of
   pending bytes of the bounds *)

\* pending bytes: the first byte, then bytes that tell their position
Stream(first, n) == [i \in 1..n |-> IF i = 1 THEN first ELSE i]

InitReader ==
    /\ panel_info = NoInfo
    /\ authenticated = FALSE
    /\ config = <<"a", "b", "c", "d">>
    /\ connected \in BOOLEAN
    /\ rxbuf \in { Stream(first, n) : first \in 0..255, n \in 0..MaxStream }
    /\ pc = "idle"
    /\ call = [op |-> "none", arg |-> NoArg, expected |-> {}, elapsed |-> 0, stale |-> 0]
    /\ entry = [info |-> NoInfo, auth |-> FALSE]
    /\ io = <<>>
    /\ tx = <<>>
    /\ ret = Pending
    /\ failed = FALSE
    /\ handshake = <<>>
    /\ monitor = NoMonitor

\* connection.read_variable_length(); call.arg keeps the bytes that were pending
read_variable_length_call ==
    /\ pc = "idle"
    /\ call.op = "none"
    /\ call' = [call EXCEPT !.op = "read_variable_length", !.arg = [pending |-> rxbuf]]
    /\ entry' = Snapshot
    /\ IF ~connected
       THEN /\ ret' = Returned("SerialException", <<>>, <<>>, 160)
            /\ UNCHANGED <<rxbuf, io>>
       ELSE LET r == read_variable_length(rxbuf)
            IN  /\ rxbuf' = r.rest
                /\ io' = <<"read">>
                /\ ret' = Returned("bytes", r.data, <<>>,
                                   IF Len(r.data) = 0 THEN 171 ELSE 195)
    /\ UNCHANGED <<panel_info, authenticated, config, connected, pc, tx, failed,
                   handshake, monitor>>

NextReader == read_variable_length_call

SpecReader == InitReader /\ [][NextReader]_vars

----------------------------------------------------------------------------

(* parse_message on its own, over every command byte, on a whole frame and on
   inputs shorter than 2 bytes *)

\* lengths of the inputs: nothing, the command byte alone, a whole frame
ParseLengths == {0, 1, FrameLen}

\* a frame of that command byte that its layout, if it has one, accepts
FrameOf(command) ==
    IF command = 114 THEN HandshakeFrame(0, <<0, 0, 0>>, 0) ELSE PlainFrame(command)

InitParse ==
    /\ panel_info = NoInfo
    /\ authenticated = FALSE
    /\ config = <<"a", "b", "c", "d">>
    /\ connected = TRUE
    /\ rxbuf \in { SubSeq(FrameOf(command), 1, n) :
                       command \in 0..255, n \in ParseLengths }
    /\ pc = "idle"
    /\ call = [op |-> "none", arg |-> NoArg, expected |-> {}, elapsed |-> 0, stale |-> 0]
    /\ entry = [info |-> NoInfo, auth |-> FALSE]
    /\ io = <<>>
    /\ tx = <<>>
    /\ ret = Pending
    /\ failed = FALSE
    /\ handshake = <<>>
    /\ monitor = NoMonitor

\* protocol.parse_message(data) on the bytes that were received
parse_message_received ==
    /\ pc = "idle"
    /\ call.op = "none"
    /\ call' = [call EXCEPT !.op = "parse_message", !.arg = [pending |-> rxbuf]]
    /\ entry' = Snapshot
    /\ ret' = LET parsed == parse_message(rxbuf)
              IN  Returned(IF parsed.ok THEN "parsed" ELSE "None", parsed, rxbuf,
                           IF parsed.ok THEN 329
                           ELSE IF Len(rxbuf) < 2 THEN 318
                           ELSE IF get_parser_by_command(rxbuf[1]) = "None" THEN 325
                           ELSE 332)
    /\ UNCHANGED <<panel_info, authenticated, config, connected, rxbuf, pc, io, tx,
                   failed, handshake, monitor>>

NextParse == parse_message_received

SpecParse == InitParse /\ [][NextParse]_vars

----------------------------------------------------------------------------

(* commands.py: parse_perform_action_response *)

\* result_codes.get(command, "unknown")
result_codes(command) ==
    CASE command = 64 -> "success"
      [] command = 65 -> "fail"
      [] command = 66 -> "invalid_argument"
      [] command = 67 -> "user_code_required"
      [] OTHER -> "unknown"

\* present is FALSE where the function returns None
parse_perform_action_response(data) ==
    IF Len(data) < 2
    THEN [present |-> FALSE, command |-> 0, result |-> "", success |-> FALSE]
    ELSE [present |-> TRUE, command |-> data[1], result |-> result_codes(data[1]),
          success |-> (data[1] = 64)]

----------------------------------------------------------------------------
(* Properties *)

Commands == {"arm_partition", "disarm_partition", "bypass_zone", "read_status"}

FailureValue(op) ==
    IF op \in {"read_status", "initiate_communication"} THEN "None" ELSE "False"

\* the accepted response of the most recent call starts with this byte
Accepted(byte) == ret.resp # <<>> /\ ret.resp[1] = byte

\* a password as the contract defines it: four hexadecimal digits
NibbleOf ==
    [c \in {"0", "1", "2", "3", "4", "5", "6", "7", "8", "9", "a", "b", "c", "d",
            "e", "f", "A", "B", "C", "D", "E", "F"} |->
        CASE c = "0" -> 0 [] c = "1" -> 1 [] c = "2" -> 2 [] c = "3" -> 3
          [] c = "4" -> 4 [] c = "5" -> 5 [] c = "6" -> 6 [] c = "7" -> 7
          [] c = "8" -> 8 [] c = "9" -> 9 [] c \in {"a", "A"} -> 10
          [] c \in {"b", "B"} -> 11 [] c \in {"c", "C"} -> 12
          [] c \in {"d", "D"} -> 13 [] c \in {"e", "E"} -> 14
          [] c \in {"f", "F"} -> 15]

WellFormedPassword(p) == Len(p) = 4 /\ \A i \in 1..4 : p[i] \in DOMAIN NibbleOf

\* a frame that passes frame-level verification: full length and checksum
Verified(frame) ==
    /\ Len(frame) = FrameLen
    /\ frame[37] = SumBytes(SubSeq(frame, 1, 36)) % 256

\* C1: a command (arm_partition, disarm_partition, bypass_zone, read_status)
\* called in a session state other than Authenticated returns its failure
\* value at once and performs no write, read, available() or flush
C1_CommandsGated ==
    (call.op \in Commands /\ ~entry.auth) =>
        /\ pc = "idle"
        /\ ret.val = FailureValue(call.op)
        /\ io = <<>>
        /\ tx = <<>>

C1_Witness ==
    /\ call.op = "arm_partition"
    /\ entry.info.present
    /\ ~entry.auth
    /\ ret.val = "False"

\* C2: initialize_communication returns True, and sets _authenticated, exactly
\* when its wait accepted a response whose command byte is 0x10; a timeout, a
\* 0x70 response or an early return leaves the flag as it was
C2_AuthenticatedIffSuccessCode ==
    (call.op = "initialize_communication") =>
        /\ (ret.val = "True") <=> Accepted(16)
        /\ Accepted(16) => authenticated
        /\ ~Accepted(16) => authenticated = entry.auth

C2_Witness ==
    /\ call.op = "initialize_communication"
    /\ ret.val = "True"
    /\ Accepted(16)
    /\ ~entry.auth
    /\ authenticated

\* C3: once an authenticate call was answered 0x70 the session is Failed for
\* good: it is not Authenticated and every later command is rejected without
\* sending bytes
C3_FailedIsTerminal ==
    failed =>
        /\ ~authenticated
        /\ (call.op \in Commands => (tx = <<>> /\ ret.val = FailureValue(call.op)))

\* C4: initialize_communication called while panel_info is empty returns
\* False, writes nothing and leaves the session as it was
C4_AuthenticateNeedsIdentity ==
    (call.op = "initialize_communication" /\ ~entry.info.present) =>
        /\ pc = "idle"
        /\ ret.val = "False"
        /\ tx = <<>>
        /\ io = <<>>
        /\ panel_info = entry.info
        /\ authenticated = entry.auth

C4_Witness ==
    /\ call.op = "initialize_communication"
    /\ ~entry.info.present
    /\ ret.line = 125

\* C5: initiate_communication called when the session is not Disconnected
\* (identity populated or authenticated) is rejected, writes nothing and
\* leaves panel_info unchanged
C5_IdentifyOnlyFromDisconnected ==
    (call.op = "initiate_communication" /\ (entry.info.present \/ entry.auth)) =>
        /\ pc = "idle"
        /\ ret.val = "None"
        /\ tx = <<>>
        /\ io = <<>>
        /\ panel_info = entry.info

\* C6: once populated, panel_info never changes
C6_IdentityPopulatedOnce ==
    [][panel_info.present => panel_info' = panel_info]_vars

\* C7: panel_info is populated by an identify call only from a verified
\* handshake response: command 0x72, result 0xFF, 37 bytes, valid checksum
C7_IdentifiedOnlyAfterVerifiedResponse ==
    (call.op = "initiate_communication" /\ panel_info # entry.info) =>
        /\ Accepted(114)
        /\ ret.resp[2] = 255
        /\ Verified(ret.resp)

\* C8: initialize_communication with a configured password that is not four
\* hexadecimal digits fails with the invalid-password error (ValueError) and
\* writes nothing
C8_MalformedPasswordRejected ==
    (call.op = "initialize_communication" /\ entry.info.present
        /\ ~WellFormedPassword(config)) =>
        /\ ret.val = "ValueError"
        /\ tx = <<>>

\* C9: encode_password of four hexadecimal digits c0 c1 c2 c3 returns the two
\* bytes 16*hex(c0)+hex(c1) and 16*hex(c2)+hex(c3)
C9_PasswordPacking ==
    (call.op = "encode_password" /\ WellFormedPassword(config)) =>
        /\ ret.val = "bytes"
        /\ ret.data = << 16 * NibbleOf[config[1]] + NibbleOf[config[2]],
                         16 * NibbleOf[config[3]] + NibbleOf[config[4]] >>

C9_Witness ==
    /\ call.op = "encode_password"
    /\ config = <<"a", "b", "c", "d">>
    /\ ret.data = <<171, 205>>

\* C10: after any accepted handshake response, initialize_communication with a
\* well-formed password writes one 37-byte frame with command 0x00 that
\* carries product_id, firmware and panel_id of the handshake response
\* (offsets 6, 7-9, 10-11) at offsets 1, 2-4, 5-6, the encoded password at
\* offsets 7-8 and the source identifier 1 at offset 12
C10_AuthFrameEchoesIdentity ==
    (call.op = "initialize_communication" /\ entry.info.present /\ connected
        /\ WellFormedPassword(config)) =>
        /\ Len(tx) = 1
        /\ Len(tx[1]) = FrameLen
        /\ tx[1][1] = 0
        /\ tx[1][2] = handshake[7]
        /\ SubSeq(tx[1], 3, 5) = SubSeq(handshake, 8, 10)
        /\ SubSeq(tx[1], 6, 7) = SubSeq(handshake, 11, 12)
        /\ SubSeq(tx[1], 8, 9) = << 16 * NibbleOf[config[1]] + NibbleOf[config[2]],
                                    16 * NibbleOf[config[3]] + NibbleOf[config[4]] >>
        /\ tx[1][13] = 1

\* the action codes of the command table
ArmVariants == {"arm", "arm_stay", "arm_sleep", "arm_instant", "arm_stay_instant"}

TableCode(op, mode) ==
    CASE op = "disarm_partition" -> 5
      [] op = "bypass_zone" -> 16
      [] op = "arm_partition" /\ mode = "arm" -> 4
      [] op = "arm_partition" /\ mode = "arm_stay" -> 1
      [] op = "arm_partition" /\ mode = "arm_sleep" -> 2
      [] op = "arm_partition" /\ mode = "arm_instant" -> 7
      [] op = "arm_partition" /\ mode = "arm_stay_instant" -> 6
      [] OTHER -> -1

ActionCommands == {"arm_partition", "disarm_partition", "bypass_zone"}

\* the argument of the most recent command is inside the range of its table
InRange ==
    CASE call.op = "arm_partition" -> call.arg.n \in 1..8 /\ call.arg.m \in ArmVariants
      [] call.op = "disarm_partition" -> call.arg.n \in 1..8
      [] call.op = "bypass_zone" -> call.arg.n \in 1..192
      [] call.op = "read_status" -> call.arg.k \in 1..32 /\ call.arg.n \in 0..65535
      [] OTHER -> FALSE

\* C11: in an authenticated session arm_partition (partition 1..8, one of the
\* five arm modes), disarm_partition (partition 1..8) and bypass_zone (zone
\* 1..192) write exactly one frame of 37 bytes: command 0x40, the action code
\* of the table at offset 4, the number minus one at offset 5, source id 0x01
\* at offset 33 and user id 0 at offsets 34 and 35
C11_ActionFrameLayout ==
    (call.op \in ActionCommands /\ entry.auth /\ InRange) =>
        /\ Len(tx) = 1
        /\ Len(tx[1]) = 37
        /\ tx[1][1] = 64
        /\ tx[1][5] = TableCode(call.op, call.arg.m)
        /\ tx[1][6] = call.arg.n - 1
        /\ tx[1][34] = 1
        /\ tx[1][35] = 0
        /\ tx[1][36] = 0

C11_Witness ==
    /\ call.op = "arm_partition"
    /\ entry.auth
    /\ call.arg.n = 8
    /\ call.arg.m = "arm_stay_instant"
    /\ Len(tx) = 1
    /\ tx[1][5] = 6
    /\ tx[1][6] = 7

\* the number given to the most recent command is outside the range of its table
OutOfRange ==
    CASE call.op \in {"arm_partition", "disarm_partition"} -> call.arg.n \notin 1..8
      [] call.op = "bypass_zone" -> call.arg.n \notin 1..192
      [] call.op = "read_status" -> call.arg.k \notin 1..32 \/ call.arg.n \notin 0..65535
      [] OTHER -> FALSE

\* C12: in an authenticated session a command given a partition outside 1..8,
\* a zone outside 1..192, a record count outside 1..32 or an address outside
\* 0..65535 returns its failure value and writes no frame
C12_RangesEnforced ==
    (call.op \in Commands /\ entry.auth /\ OutOfRange) =>
        /\ pc = "idle"
        /\ ret.val = FailureValue(call.op)
        /\ tx = <<>>

\* C13: arm_partition called with a mode that is not one of the five arm
\* variants returns False and writes no frame, and no frame written by
\* arm_partition carries the disarm action 0x05
C13_ArmNeverDisarms ==
    (call.op = "arm_partition" /\ entry.auth) =>
        /\ call.arg.m \notin ArmVariants => (ret.val = "False" /\ tx = <<>>)
        /\ \A i \in 1..Len(tx) : tx[i][5] # 5

\* the classification of the command table
ResultClass(byte) ==
    CASE byte = 65 -> "fail"
      [] byte = 66 -> "invalid_argument"
      [] byte = 67 -> "user_code_required"
      [] OTHER -> "unknown"

\* the most recent action command wrote its frame and has returned
ActionReturned ==
    /\ call.op \in ActionCommands
    /\ pc = "idle"
    /\ Len(tx) = 1

Builders ==
    {"build_initiate_communication", "build_initialize_communication_mgsp",
     "build_perform_action", "build_read_eeprom"}

\* C15: every frame a builder produces, and so every frame written to the
\* transport, has exactly 37 bytes and its byte 36 is the sum of bytes 0..35
\* modulo 256
C15_BuiltFramesSealed ==
    \A i \in 1..Len(tx) : Verified(tx[i])

C15_Witness ==
    /\ call.op = "build_read_eeprom"
    /\ Len(tx) = 1
    /\ SumBytes(SubSeq(tx[1], 1, 36)) > 255
    /\ tx[1][37] = SumBytes(SubSeq(tx[1], 1, 36)) - 256

\* C16: parse_message rejects a frame whose last byte is not the sum of the
\* bytes before it: after one byte at offsets 0..35 of a valid frame is changed
\* and the checksum left as it was, parse_message fails
C16_DecodeVerifiesChecksum ==
    (call.op = "parse_message" /\ Verified(rxbuf) /\ ~Verified(ret.resp)) =>
        ~ret.data.ok

\* fields that a layout decodes through an Enum
EnumFields == {"product_id", "source_id"}

\* the decoded field of that name equals the value given to the builder; a
\* value an Enum turned into its name does not equal the integer
FieldRoundTrips(name) ==
    /\ name \in DOMAIN ret.data.fields
    /\ IF name \in EnumFields
       THEN ~ret.data.fields[name].named /\ ret.data.fields[name].intvalue = call.arg[name]
       ELSE ret.data.fields[name] = call.arg[name]

\* C18: for every builder, parse_message of the frame it built succeeds, every
\* field given to the builder is decoded to the value given, and the decoded
\* checksum is byte 36 of the frame
C18_RoundTrip ==
    call.op \in Builders =>
        /\ ret.data.ok
        /\ \A name \in DOMAIN call.arg : FieldRoundTrips(name)
        /\ ret.data.checksum = tx[1][37]

\* the most recent call took the frame wait_for_response gave it as its
\* response: initiate_communication and read_status when they decoded it, the
\* other operations whenever they got one
ResponseTaken ==
    /\ call.op \in Commands \cup {"initiate_communication", "initialize_communication"}
    /\ ret.resp # <<>>
    /\ call.op = "initiate_communication" => ret.val = "info"
    /\ call.op = "read_status" => ret.val = "data"

\* C17: a received frame that is cut short or whose checksum is wrong is never
\* taken as the response of initiate_communication, initialize_communication
\* or a command; an action command does not return True on such a frame
C17_OnlyVerifiedResponses ==
    ResponseTaken => Verified(ret.resp)

\* the frame length of the contract for a first byte b
FrameLengthFor(b) == IF b <= 4 THEN 37 ELSE IF b <= 37 THEN b ELSE 37

\* C19: read_variable_length takes the frame length from the first byte b: 37
\* for b <= 4, b for 4 < b <= 37 (10 gives 10), 37 for b > 37 (200 gives 37);
\* when that many bytes are pending it returns exactly that many, beginning
\* with b
C19_LengthFromFirstByte ==
    (call.op = "read_variable_length" /\ ret.val = "bytes" /\ call.arg.pending # <<>>) =>
        LET b == call.arg.pending[1]
        IN  Len(call.arg.pending) >= FrameLengthFor(b) =>
                /\ Len(ret.data) = FrameLengthFor(b)
                /\ ret.data[1] = b
                /\ b = 10 => Len(ret.data) = 10
                /\ b = 200 => Len(ret.data) = 37

C19_Witness ==
    /\ call.op = "read_variable_length"
    /\ ret.val = "bytes"
    /\ Len(call.arg.pending) = 40
    /\ call.arg.pending[1] = 200
    /\ Len(ret.data) = 37
    /\ Len(rxbuf) = 3

\* a frame monitor_events read that is a live event and decodes: its command
\* byte is in 0xE0..0xEF and it holds the 35 bytes of the LiveEvent layout
IsLiveEvent(frame) == frame[1] \in 224..239 /\ Len(frame) >= 35

\* C20: monitor_events yields exactly one record for each frame it received
\* whose command byte lies in 0xE0..0xEF and that decodes, in the order of
\* arrival, and nothing for any other frame or for an empty read; after a yield
\* it goes on polling and yields nothing more until such a frame arrives
C20_OneRecordPerEvent ==
    LET events == SelectSeq(monitor.frames, IsLiveEvent)
    IN  /\ Len(monitor.yielded) = Len(events)
        /\ \A i \in 1..Len(events) :
               /\ monitor.yielded[i].command = events[i][1]
               /\ monitor.yielded[i].event_group = events[i][3]
               /\ monitor.yielded[i].event_1 = events[i][4]
               /\ monitor.yielded[i].event_2 = events[i][5]
               /\ monitor.yielded[i].partition = events[i][6]

C20_Witness ==
    /\ pc = "monitor"
    /\ Len(monitor.frames) = 2
    /\ monitor.frames[1][1] = 64
    /\ monitor.frames[2] = DoorEvent
    /\ Len(monitor.yielded) = 1
    /\ monitor.yielded[1].event_1 = 3

\* C21: monitor_events given a duration d >= 0, d = 0 included, ends once the
\* elapsed time has reached d; only a call without a duration runs until the
\* caller closes it
C21_BoundedMonitorEnds ==
    (pc = "monitor" /\ call.arg.n # NoDuration) ~> (pc = "idle")

\* a live-event frame too short for the LiveEvent layout
Undecodable(frame) == frame[1] \in 224..239 /\ ~LiveEvent(frame).ok

\* C22: a live-event frame that does not decode is skipped (nothing is yielded
\* for it and monitor_events goes on), and a well-formed live-event frame read
\* after it is still yielded
C22_UndecodableEventSkipped ==
    [][(pc = "monitor" /\ Len(monitor'.frames) = Len(monitor.frames) + 1) =>
          LET data == monitor'.frames[Len(monitor'.frames)]
          IN  /\ Undecodable(data) =>
                    pc' = "monitor" /\ monitor'.yielded = monitor.yielded
              /\ ( /\ IsLiveEvent(data)
                   /\ LiveEvent(data).ok
                   /\ \E i \in 1..Len(monitor.frames) :
                          Undecodable(monitor.frames[i]) ) =>
                    /\ pc' = "monitor"
                    /\ monitor'.yielded =
                           Append(monitor.yielded, handle_live_event(data).event)
                    /\ handle_live_event(data).event.command = data[1]]_vars

C22_Witness ==
    /\ pc = "monitor"
    /\ monitor.frames = <<SubSeq(DoorEvent, 1, 20), DoorEvent>>
    /\ Len(monitor.yielded) = 1
    /\ monitor.yielded[1].label = SubSeq(LabelDoor, 1, 10)

\* C23: while an operation waits, a frame whose command byte is outside the
\* expected set is read and dropped without ending the wait; the frame the wait
\* returns is a qualifying frame read before the deadline, and a wait that
\* reaches the deadline without one ends with the caller's timeout failure
C23_UnexpectedFrameDropped ==
    [][(pc = "wait" /\ <<pc, call>>' # <<pc, call>>) =>
          LET r == read_variable_length(rxbuf)
              read == available > 0 /\ Len(r.data) > 0
          IN  IF read /\ r.data[1] \in call.expected
              THEN /\ pc' = "idle"
                   /\ ret'.resp = r.data
                   /\ ret'.line # TimeoutLines[call.op]
              ELSE /\ read => rxbuf' = r.rest
                   /\ IF call.elapsed + 1 < TimeoutTicks
                      THEN pc' = "wait" /\ ret' = Pending
                           /\ call'.expected = call.expected
                      ELSE /\ pc' = "idle"
                           /\ ret'.line = TimeoutLines[call.op]
                           /\ ret'.val = FailureValue(call.op)
                           /\ ret'.resp = <<>>]_vars

\* a frame was read and dropped, the wait goes on, and a qualifying frame has
\* arrived before the deadline
C23_Witness ==
    /\ pc = "wait"
    /\ call.elapsed > 0
    /\ \E i \in 1..Len(io) : io[i] = "read"
    /\ rxbuf # <<>>
    /\ rxbuf[1] \in call.expected

\* the operations that exchange a frame with the panel
Exchanges == Commands \cup {"initiate_communication", "initialize_communication"}

\* C24: there is no retry: a call of initiate_communication,
\* initialize_communication, arm_partition, disarm_partition, bypass_zone or
\* read_status writes at most one frame, and it polls or reads the input only
\* after that write
C24_SingleWriteBeforeRead ==
    (call.op \in Exchanges) =>
        /\ Len(tx) <= 1
        /\ \A i \in 1..Len(io) :
               io[i] \in {"available", "read"} =>
                   /\ Len(tx) = 1
                   /\ \E j \in 1..(i - 1) : io[j] = "write"

\* a command that waited until its deadline, reading frames it did not
\* expect, has written its frame once
C24_Witness ==
    /\ call.op \in Commands
    /\ pc = "idle"
    /\ ret.line = TimeoutLines[call.op]
    /\ Len(tx) = 1
    /\ \E i \in 1..Len(io) : io[i] = "read"

\* C25: an operation that ends by timeout leaves the session as it was when
\* the call began (initiate_communication called on a Disconnected session
\* leaves it Disconnected with no panel_info; the others leave panel_info and
\* _authenticated as they were), and the expiry does not flush or reset the
\* transport: the port stays open and the input holds what the last read left
C25_TimeoutLeavesSession ==
    [][(pc = "wait" /\ pc' = "idle" /\ ret'.line = TimeoutLines[call.op]) =>
          /\ panel_info' = entry.info
          /\ authenticated' = entry.auth
          /\ (call.op = "initiate_communication" /\ ~entry.info.present
                 /\ ~entry.auth) =>
                 (SessionState' = "Disconnected" /\ panel_info' = NoInfo)
          /\ connected' = connected
          /\ rxbuf' = IF available > 0 THEN read_variable_length(rxbuf).rest
                      ELSE rxbuf
          /\ \A i \in 1..Len(io') :
                 io'[i] = "flush" =>
                     (i = 1 /\ call.op = "initiate_communication")]_vars

\* a command of an authenticated session timed out, the session is still
\* authenticated and bytes that arrived are still in the input buffer
C25_Witness ==
    /\ call.op \in Commands
    /\ pc = "idle"
    /\ ret.line = TimeoutLines[call.op]
    /\ entry.auth
    /\ authenticated
    /\ panel_info.present
    /\ rxbuf # <<>>

\* C26: every wait for a response ends, whatever the device sends or does not
\* send: the operation returns with a qualifying frame or with its timeout
\* result
C26_WaitTerminates == (pc = "wait") ~> (pc = "idle" /\ ret # Pending)

\* the handshake was answered only by frames of other commands, each read and
\* dropped, and ended at its deadline
C26_Witness ==
    /\ call.op = "initiate_communication"
    /\ pc = "idle"
    /\ ret.line = TimeoutLines.initiate_communication
    /\ ret.val = "None"
    /\ \E i \in 1..Len(io) : io[i] = "read"

\* what an operation leaves with when an exception propagates to its caller
Raised == {"SerialException", "ValueError", "TypeError"}

\* C27: the only exception an operation raises is the transport's; a bad
\* password, an out-of-range argument, an unknown mode, a timeout, a rejection
\* and a frame that does not decode all come back as the return value
C27_OnlyTransportErrorsRaised ==
    (pc = "idle" /\ ret.val \in Raised) =>
        (ret.val = "SerialException" /\ ~connected)

\* the bytes of frame at offsets first..last, counted from 0
Offsets(frame, first, last) == SubSeq(frame, first + 1, last + 1)

\* C28: read_status, having accepted a response with command byte 0x50..0x5F
\* that decodes, returns the 27 bytes at offsets 5..31 of that response,
\* unchanged and in order, and it returns bytes in no other case
C28_MemoryBytesReturned ==
    (call.op = "read_status" /\ pc = "idle") =>
        /\ (ret.resp # <<>>) => ret.resp[1] \in 80..95
        /\ (ret.val = "data") <=> (ret.resp # <<>> /\ Len(ret.resp) >= 33)
        /\ (ret.val = "data") =>
               /\ Len(ret.data) = 27
               /\ ret.data = Offsets(ret.resp, 5, 31)
        /\ (ret.val # "data") => ret.data = <<>>

C28_Witness ==
    /\ call.op = "read_status"
    /\ pc = "idle"
    /\ ret.resp = MemoryFrame
    /\ ret.val = "data"
    /\ ret.data = MemoryDump

\* C29: read_status returns, for a response that does not decode, a value
\* that is neither the one it returns on timeout nor one it returns for a
\* response that decodes
C29_DecodeFailureDistinct ==
    (call.op = "read_status" /\ pc = "idle" /\ ret.resp # <<>>
        /\ ~ReadEEPROMResponse(ret.resp).ok) =>
        /\ ret.val # FailureValue("read_status")
        /\ ret.val # "data"

\* the transport operations of initiate_communication in the order of the code
HandshakeOrder == <<"flush", "write", "available", "read">>

\* C30: initiate_communication clears the input buffer, then writes one frame
\* of 37 bytes with command byte 0x72 and user id 0, and only then polls and
\* reads; what was buffered when the call began is gone before the write, so
\* the response it returns was read from bytes that arrived after it
C30_HandshakeOrder ==
    [][(call'.op = "initiate_communication" /\ tx' # <<>>) =>
          /\ Len(io') >= 2
          /\ io' = SubSeq(HandshakeOrder, 1, Len(io'))
          /\ Len(tx') = 1
          /\ Len(tx'[1]) = 37
          /\ tx'[1][1] = 114
          /\ tx'[1][36] = 0
          /\ (pc = "idle" /\ pc' = "wait") =>
                 (rxbuf' = <<>> /\ call'.arg.pending = rxbuf)
          /\ (pc = "wait" /\ ret'.resp # <<>>) =>
                 ret'.resp = read_variable_length(rxbuf).data]_vars

\* the handshake of another panel was in the buffer when the call began; the
\* call returned the frame that arrived after its write
C30_Witness ==
    /\ call.op = "initiate_communication"
    /\ pc = "idle"
    /\ call.arg.pending = OtherPanel
    /\ ret.val = "info"
    /\ ret.resp = KnownPanel
    /\ panel_info.fields.panel_id = 1234
    /\ io = HandshakeOrder

\* the layout the contract gives a command byte; "" where it gives none
LayoutFor(b) ==
    IF b \in 64..79 THEN "PerformActionResponse"
    ELSE IF b \in 80..95 THEN "ReadEEPROMResponse"
    ELSE IF b \in 224..239 THEN "LiveEvent"
    ELSE IF b = 114 THEN "InitiateCommunicationResponse"
    ELSE IF b = 0 THEN "InitializeCommunication_MGSP"
    ELSE IF b \in {16, 112} THEN "InitializeCommunicationResponse_MGSP"
    ELSE ""

\* C31: parse_message chooses the layout by the command byte: 0x40..0x4F the
\* perform-action response, 0x50..0x5F the read-memory response, 0xE0..0xEF
\* the live event, 0x72, 0x00, 0x10 and 0x70 their own layouts; for any other
\* command byte, and for an input shorter than 2 bytes, it returns None
C31_LayoutByCommandByte ==
    (call.op = "parse_message" /\ ret.resp = call.arg.pending) =>
        /\ Len(ret.resp) < 2 => (~ret.data.ok /\ ret.line = 318)
        /\ Len(ret.resp) = FrameLen =>
               IF LayoutFor(ret.resp[1]) = ""
               THEN ~ret.data.ok /\ ret.line = 325
               ELSE /\ ret.data.ok
                    /\ ret.data.layout = LayoutFor(ret.resp[1])
                    /\ ret.data.fields.command = ret.resp[1]

\* a whole frame with command byte 0x40 is decoded as a perform-action response
C31_Witness ==
    /\ call.op = "parse_message"
    /\ ret.resp = PlainFrame(64)
    /\ ret.data.ok
    /\ ret.data.layout = "PerformActionResponse"

\* C32: read_variable_length on an open port returns the empty buffer from
\* its first read when no byte is pending; otherwise it returns the first byte
\* followed by what the second read obtained, between 1 byte and the frame
\* length of that first byte, and a short read is returned as it is, not raised
C32_ShortReadReturned ==
    (call.op = "read_variable_length" /\ connected) =>
        /\ ret.val = "bytes"
        /\ ret.data \o rxbuf = call.arg.pending
        /\ IF call.arg.pending = <<>>
           THEN ret.data = <<>> /\ ret.line = 171
           ELSE LET b == call.arg.pending[1]
                IN  /\ ret.line = 195
                    /\ ret.data[1] = b
                    /\ 1 <= Len(ret.data)
                    /\ Len(ret.data) <= FrameLengthFor(b)
                    /\ Len(ret.data) = Min(Len(call.arg.pending), FrameLengthFor(b))

\* 20 bytes of a live event are pending: they are returned as one short frame
C32_Witness ==
    /\ call.op = "read_variable_length"
    /\ connected
    /\ call.arg.pending = Stream(226, 20)
    /\ ret.val = "bytes"
    /\ ret.data = Stream(226, 20)
    /\ rxbuf = <<>>

\* C33: the label of a yielded record is the 16 bytes at offsets 11..26 of its
\* frame with only the trailing NUL bytes removed, leading NUL bytes and every
\* other byte kept, and partition, event group and the two sub-codes are the
\* bytes at offsets 5, 2, 3 and 4
C33_LabelTrailingNulOnly ==
    \A k \in 1..Len(monitor.yielded) :
        LET events == SelectSeq(monitor.frames, IsLiveEvent)
        IN  k <= Len(events) =>
                /\ monitor.yielded[k].label = RStripNul(Offsets(events[k], 11, 26))
                /\ monitor.yielded[k].partition = events[k][6]
                /\ monitor.yielded[k].event_group = events[k][3]
                /\ monitor.yielded[k].event_1 = events[k][4]
                /\ monitor.yielded[k].event_2 = events[k][5]

\* C34: the response initialize_communication or a command accepted arrived
\* after the call wrote its frame: none of its bytes was already pending then,
\* so a late answer to an earlier call is not taken for the answer to this one
C34_ResponseAfterRequest ==
    (call.op \in Commands \cup {"initialize_communication"} /\ pc = "idle"
        /\ ret.resp # <<>>) =>
        call.stale = 0

\* command bytes of the frames a panel sends: handshake, authentication
\* answers, command and memory answers, live events
ResponseCodes == {114, 16, 112} \cup (64..95) \cup (224..239)

\* C35: when a whole 37-byte frame with a response command byte is pending,
\* one read_variable_length call takes all 37 bytes and leaves none of them to
\* be read as the start of the next frame
C35_FrameConsumedWhole ==
    (call.op = "read_variable_length" /\ connected
        /\ Len(call.arg.pending) = FrameLen
        /\ call.arg.pending[1] \in ResponseCodes) =>
        /\ Len(ret.data) = FrameLen
        /\ rxbuf = <<>>

\* the lines at which a command returns because _authenticated is false
GateLines == {257, 302, 341, 381}

\* C36: _authenticated, once true, stays true through every later operation
\* (an initialize_communication that times out or is answered 0x70, an
\* initiate_communication, a command, closing the port), so no later command
\* is turned away at the authentication test
C36_AuthenticatedMonotonic ==
    [][authenticated =>
          /\ authenticated'
          /\ (call' # call /\ call'.op \in Commands) => ret'.line \notin GateLines]_vars

\* an authenticated session authenticated again, was answered 0x70, and is
\* still authenticated
C36_Witness ==
    /\ call.op = "initialize_communication"
    /\ pc = "idle"
    /\ entry.auth
    /\ Accepted(112)
    /\ ret.val = "False"
    /\ authenticated

\* C37: _authenticated is true only if panel_info is filled, and panel_info,
\* once filled, is never emptied
C37_AuthenticatedImpliesIdentified ==
    [][/\ authenticated' => panel_info'.present
       /\ panel_info.present => panel_info'.present]_vars

\* an authenticated session whose later handshake got a response that did not
\* decode still has its panel_info
C37_Witness ==
    /\ call.op = "initiate_communication"
    /\ pc = "idle"
    /\ ret.line = 112
    /\ entry.auth
    /\ authenticated
    /\ panel_info.present
    /\ panel_info = entry.info

\* C38: monitor_events, in whatever state the session is, only polls and
\* reads: it writes no frame, flushes nothing and leaves panel_info and
\* _authenticated as they were, whatever frames it reads
C38_MonitorOnlyReads ==
    (call.op = "monitor_events") =>
        /\ tx = <<>>
        /\ \A i \in 1..Len(io) : io[i] \in {"available", "read"}
        /\ panel_info = entry.info
        /\ authenticated = entry.auth
        /\ connected

\* an Identified session that is not authenticated monitors, reads the
\* authentication success answer and stays as it was
C38_Witness ==
    /\ call.op = "monitor_events"
    /\ panel_info.present
    /\ ~authenticated
    /\ monitor.frames # <<>>
    /\ monitor.frames[1] = AuthResponse.data
    /\ io = <<"available", "read">>

\* C39: a live-event frame that arrives while an operation waits for its
\* response is not consumed by the wait loop: as long as the operation waits,
\* a pending frame with command byte 0xE0..0xEF stays in the input for a later
\* monitor_events to deliver
C39_EventsSurviveWait ==
    [][(pc = "wait" /\ connected /\ rxbuf # <<>> /\ rxbuf[1] \in 224..239) =>
          (Len(rxbuf') >= Len(rxbuf) /\ SubSeq(rxbuf', 1, Len(rxbuf)) = rxbuf)]_vars

============================================================================
